---- MODULE Spec2Model ----
(***************************************************************************)
(* Model of pytorch_widedeep's loss registry (losses.py) and of the model  *)
(* composer WideDeep (models/wide_deep.py).                                *)
(*                                                                         *)
(* Two state machines share this module:                                   *)
(*   LossSpec   calls of get_loss_function(loss_fn, **kwargs)               *)
(*   ModelSpec  WideDeep.__init__ followed by WideDeep.forward calls        *)
(* Floats are scaled by 100 (alpha 0.25 is 25, gamma 1.0 is 100).           *)
(***************************************************************************)
EXTENDS Integers, Sequences, FiniteSets, TLC

VARIABLES
    loss_fn,      \* get_loss_function: the loss_fn argument of the last call
    kwargs,       \* get_loss_function: the **kwargs of the last call
    loss_result,  \* get_loss_function: what the last call returned or raised
    args,         \* WideDeep.__init__: the arguments of the constructor call
    model,        \* the WideDeep object (its attributes) or the build failure
    X,            \* WideDeep.forward: the batch of the forward calls
    fwd,          \* WideDeep.forward: locals and outcome of the last call
    prev_fwd,     \* WideDeep.forward: outcome of the call before the last
    focal         \* FocalLoss.forward: arguments, locals and outcome of the call

loss_vars == <<loss_fn, kwargs, loss_result>>
model_vars == <<args, model, X, fwd, prev_fwd>>
vars == <<loss_fn, kwargs, loss_result, args, model, X, fwd, prev_fwd, focal>>

\* Python's None
None == [type |-> "NoneType"]

(***************************************************************************)
(* Python helpers                                                          *)
(***************************************************************************)

\* a prefix test in place of the substring test
StrStartsWith(s, sub) == Len(s) >= Len(sub) /\ SubSeq(s, 1, Len(sub)) = sub

\* Python's `sub in s` on strings
StrContains(s, sub) ==
    \E i \in 1..(Len(s) - Len(sub) + 1) : SubSeq(s, i, i + Len(sub) - 1) = sub

\* Python's `x in list`
InList(x, list) == \E i \in 1..Len(list) : list[i] = x

(***************************************************************************)
(* losses.py: the objective tables                                         *)
(***************************************************************************)

Methods == <<"binary", "multiclass", "regression">>

method_to_objec ==
    [ binary |->
        <<"binary", "logistic", "binary_logloss", "binary_cross_entropy",
          "binary_focal_loss">>,
      multiclass |->
        <<"multiclass", "multi_logloss", "cross_entropy",
          "categorical_cross_entropy", "multiclass_focal_loss">>,
      regression |->
        <<"regression", "mse", "l2", "mean_squared_error",
          "mean_absolute_error", "mae", "l1", "mean_squared_log_error",
          "msle", "root_mean_squared_error", "rmse",
          "root_mean_squared_log_error", "rmsle">> ]

\* keys of the dict comprehension {obj: method for method, objs in ... for obj in objs}
ObjectiveKeys ==
    UNION { { method_to_objec[Methods[m]][i] :
                i \in 1..Len(method_to_objec[Methods[m]]) } : m \in 1..Len(Methods) }

\* the dict itself: a later (method, obj) pair overwrites an earlier one
objective_to_method ==
    [ obj \in ObjectiveKeys |->
        LET hits == { m \in 1..Len(Methods) : InList(obj, method_to_objec[Methods[m]]) }
            last == CHOOSE m \in hits : \A n \in hits : n <= m
        IN  Methods[last] ]

\* the table with "mse" listed under mean_absolute_error as well
loss_aliases_overlap ==
    [ binary |-> <<"binary", "logistic", "binary_logloss", "binary_cross_entropy">>,
      multiclass |->
        <<"multiclass", "multi_logloss", "cross_entropy", "categorical_cross_entropy">>,
      regression |-> <<"regression", "mse", "l2", "mean_squared_error">>,
      mean_absolute_error |-> <<"mean_absolute_error", "mae", "l1", "mse">>,
      mean_squared_log_error |-> <<"mean_squared_log_error", "msle">>,
      root_mean_squared_error |-> <<"root_mean_squared_error", "rmse">>,
      root_mean_squared_log_error |-> <<"root_mean_squared_log_error", "rmsle">> ]

loss_aliases ==
    [ binary |-> <<"binary", "logistic", "binary_logloss", "binary_cross_entropy">>,
      multiclass |->
        <<"multiclass", "multi_logloss", "cross_entropy", "categorical_cross_entropy">>,
      regression |-> <<"regression", "mse", "l2", "mean_squared_error">>,
      mean_absolute_error |-> <<"mean_absolute_error", "mae", "l1">>,
      mean_squared_log_error |-> <<"mean_squared_log_error", "msle">>,
      root_mean_squared_error |-> <<"root_mean_squared_error", "rmse">>,
      root_mean_squared_log_error |-> <<"root_mean_squared_log_error", "rmsle">> ]

(***************************************************************************)
(* losses.py: the loss objects and get_loss_function                       *)
(***************************************************************************)

\* FocalLoss.__init__ defaults
DefaultAlpha == 25
DefaultGamma == 100

Returned(v) == [outcome |-> "returned", value |-> v]
Raised(e) == [outcome |-> "raised", exc |-> e]

\* nn.BCEWithLogitsLoss(weight=...) / nn.CrossEntropyLoss(weight=...):
\* kwargs["weight"] is a KeyError when the key is missing
WeightedLoss(kind, kw) ==
    IF "weight" \in DOMAIN kw
    THEN Returned([kind |-> kind, weight |-> kw["weight"]])
    ELSE Raised("KeyError")

\* FocalLoss(**kwargs): __init__(self, alpha=0.25, gamma=1.0) takes no other keyword
FocalLoss(kw) ==
    IF DOMAIN kw \subseteq {"alpha", "gamma"}
    THEN Returned([kind |-> "FocalLoss",
                   alpha |-> IF "alpha" \in DOMAIN kw THEN kw["alpha"] ELSE DefaultAlpha,
                   gamma |-> IF "gamma" \in DOMAIN kw THEN kw["gamma"] ELSE DefaultGamma])
    ELSE Raised("TypeError")

get_loss_function(name, kw) ==
    IF name \notin DOMAIN objective_to_method THEN Raised("ValueError")
    ELSE IF InList(name, loss_aliases["binary"])
        THEN WeightedLoss("BCEWithLogitsLoss", kw)
    ELSE IF InList(name, loss_aliases["multiclass"])
        THEN WeightedLoss("CrossEntropyLoss", kw)
    ELSE IF InList(name, loss_aliases["regression"])
        THEN Returned([kind |-> "MSELoss"])
    ELSE IF InList(name, loss_aliases["mean_absolute_error"])
        THEN Returned([kind |-> "L1Loss"])
    ELSE IF InList(name, loss_aliases["mean_squared_log_error"])
        THEN Returned([kind |-> "MSLELoss"])
    ELSE IF InList(name, loss_aliases["root_mean_squared_error"])
        THEN Returned([kind |-> "RMSELoss"])
    ELSE IF InList(name, loss_aliases["root_mean_squared_log_error"])
        THEN Returned([kind |-> "RMSLELoss"])
    ELSE IF StrContains(name, "focal_loss")
        THEN FocalLoss(kw)
    ELSE Returned([kind |-> "None"])

(***************************************************************************)
(* Inputs of the loss registry                                             *)
(***************************************************************************)

\* names that are not objectives; some contain "focal_loss"
OtherNames ==
    {"focal_loss", "my_focal_loss", "binary_focal_loss_", "Binary", "huber", "rmse "}

Names == ObjectiveKeys \cup OtherNames

KwargKeys == {"weight", "alpha", "gamma"}

\* number of distinct values tried for each keyword
MaxKwVal == 2

\* weight=None (unweighted); the weight tensors are numbered 1..MaxKwVal
NoWeight == 0

KwargVals(k) ==
    CASE k = "weight" -> {NoWeight} \cup 1..MaxKwVal
      [] k = "alpha"  -> { 25 * i : i \in 1..MaxKwVal }
      [] k = "gamma"  -> { 100 * i : i \in 1..MaxKwVal }

AllKwargVals == UNION { KwargVals(k) : k \in KwargKeys }

KwargsSet ==
    UNION { { kw \in [S -> AllKwargVals] : \A k \in S : kw[k] \in KwargVals(k) } :
            S \in SUBSET KwargKeys }

NoCall == [outcome |-> "none"]

CallGetLossFunction ==
    \E name \in Names, kw \in KwargsSet :
        /\ loss_fn' = name
        /\ kwargs' = kw
        /\ loss_result' = get_loss_function(name, kw)
        /\ UNCHANGED model_vars
        /\ UNCHANGED focal

LossNext == CallGetLossFunction

(***************************************************************************)
(* Tensors: a 2-D tensor is a sequence of rows, a row a sequence of        *)
(* integers.  torch.FloatTensor() is the empty tensor.                     *)
(***************************************************************************)

EmptyTensor == <<>>

Rows(t) == Len(t)
Cols(t) == Len(t[1])

RECURSIVE SumSeq(_)
SumSeq(s) == IF s = <<>> THEN 0 ELSE s[1] + SumSeq(Tail(s))

\* intermediate values of forward: a tensor, or the exception that was raised
Ok(t) == [ok |-> TRUE, t |-> t, exc |-> ""]
Fail(e) == [ok |-> FALSE, t |-> EmptyTensor, exc |-> e]

\* torch.zeros(batch_size, pred_dim)
Zeros(batch_size, width) == [i \in 1..batch_size |-> [k \in 1..width |-> 0]]

\* torch.cat([a, b], axis=1); the empty tensor is skipped
Cat(a, b) ==
    IF ~a.ok THEN a
    ELSE IF ~b.ok THEN b
    ELSE IF a.t = EmptyTensor THEN b
    ELSE IF Rows(a.t) # Rows(b.t) THEN Fail("RuntimeError")
    ELSE Ok([i \in 1..Rows(a.t) |-> a.t[i] \o b.t[i]])

\* an assignment in place of the in-place addition
AssignInPlace(out, other) ==
    IF ~out.ok THEN out
    ELSE IF ~other.ok THEN other
    ELSE IF other.t = EmptyTensor \/ Rows(other.t) # Rows(out.t) THEN Fail("RuntimeError")
    ELSE IF Cols(other.t) = Cols(out.t) THEN other
    ELSE Fail("RuntimeError")

\* out.add_(other): in place, so `other` must broadcast to the shape of `out`
AddInPlace(out, other) ==
    IF ~out.ok THEN out
    ELSE IF ~other.ok THEN other
    ELSE IF other.t = EmptyTensor \/ Rows(other.t) # Rows(out.t) THEN Fail("RuntimeError")
    ELSE IF Cols(other.t) = Cols(out.t)
        THEN Ok([i \in 1..Rows(out.t) |->
                    [k \in 1..Cols(out.t) |-> out.t[i][k] + other.t[i][k]]])
    ELSE IF Cols(other.t) = 1
        THEN Ok([i \in 1..Rows(out.t) |->
                    [k \in 1..Cols(out.t) |-> out.t[i][k] + other.t[i][1]]])
    ELSE Fail("RuntimeError")

(***************************************************************************)
(* Modules                                                                 *)
(***************************************************************************)

\* nn.Linear(in_features, out_features); its random initial weights are a
\* function of the state `seed` of the random generator when it is built
Linear(in_features, out_features, seed) ==
    [type |-> "Linear", in_features |-> in_features,
     out_features |-> out_features, seed |-> seed]

LinearForward(lin, x) ==
    IF ~x.ok THEN x
    \* a 1-D empty input gives a 1-D output, and forward's size(1) then fails
    ELSE IF x.t = EmptyTensor THEN Fail("IndexError")
    ELSE IF Cols(x.t) # lin.in_features THEN Fail("RuntimeError")
    ELSE Ok([i \in 1..Rows(x.t) |->
                [k \in 1..lin.out_features |-> lin.seed * SumSeq(x.t[i]) + k]])

Relu(x) ==
    IF ~x.ok THEN x
    ELSE Ok([i \in 1..Rows(x.t) |->
                [k \in 1..Cols(x.t) |-> IF x.t[i][k] > 0 THEN x.t[i][k] ELSE 0]])

\* a branch component (wide, deeptabular, deeptext, deepimage): a stateless
\* deterministic map from its batch slot to `width` activations per row
BranchCoef(slot) ==
    CASE slot = "wide" -> 1
      [] slot = "deeptabular" -> 2
      [] slot = "deeptext" -> 3
      [] slot = "deepimage" -> 5

BranchForward(b, slot_tensor) ==
    Ok([i \in 1..Len(slot_tensor) |->
            [j \in 1..b.width |-> BranchCoef(b.slot) * slot_tensor[i] + j]])

\* nn.Sequential(branch, nn.Linear(branch.output_dim, pred_dim))
Sequential(branch, lin) == [type |-> "Sequential", branch |-> branch, linear |-> lin]

\* MLP(d_hidden, activation, ...): dense layers d_hidden[i-1] -> d_hidden[i],
\* each [LIN -> ACT]; `head_out` is the module WideDeep.__init__ appends
RECURSIVE DenseLayers(_, _)
DenseLayers(d_hidden, seed) ==
    IF Len(d_hidden) < 2 THEN <<>>
    ELSE <<Linear(d_hidden[1], d_hidden[2], seed)>> \o DenseLayers(Tail(d_hidden), seed)

MLP(d_hidden, seed) == [type |-> "MLP", layers |-> DenseLayers(d_hidden, seed)]

\* self.deephead.add_module("head_out", lin)
AddHeadOut(mlp, lin) == [type |-> mlp.type, layers |-> mlp.layers, head_out |-> lin]

RECURSIVE DenseForward(_, _)
DenseForward(layers, x) ==
    IF layers = <<>> THEN x
    ELSE DenseForward(Tail(layers), Relu(LinearForward(layers[1], x)))

\* self.deephead(deepside)
HeadForward(head, x) ==
    IF head.type = "MLP"
    THEN LinearForward(head.head_out, DenseForward(head.layers, x))
    ELSE LinearForward(head.linear, x)

\* module(x) for a component held by the model: a branch, or a wrapped branch
ModuleForward(m, slot_tensor) ==
    IF m.type = "Sequential"
    THEN LinearForward(m.linear, BranchForward(m.branch, slot_tensor))
    ELSE BranchForward(m, slot_tensor)

\* hasattr(m, "output_dim")
HasOutputDim(m) == m.type = "Branch" /\ m.has_output_dim

\* next(deephead.parameters()).size(1)
DeepheadInpFeat(deephead) == deephead.linear.in_features

(***************************************************************************)
(* WideDeep._check_model_components and WideDeep.__init__                   *)
(***************************************************************************)

BuildError(exc, msg) == [built |-> FALSE, exc |-> exc, msg |-> msg]

\* the sum of output_dim over the deep components that are not None
DeepOutputDim(deeptabular, deeptext, deepimage) ==
    (IF deeptabular # None THEN deeptabular.width ELSE 0)
    + (IF deeptext # None THEN deeptext.width ELSE 0)
    + (IF deepimage # None THEN deepimage.width ELSE 0)

\* the wide check left out
WideCheckSkipped(a) == FALSE

\* lines 237-243: wide.wide_linear.weight.size(1) differs from pred_dim
WideCheckFails(a) == a.wide # None /\ a.wide.width # a.pred_dim

\* the output_dim checks in the order image, text, tabular
MissingOutputDimReversed(a) ==
    IF a.deepimage # None /\ ~HasOutputDim(a.deepimage) THEN "deepimage"
    ELSE IF a.deeptext # None /\ ~HasOutputDim(a.deeptext) THEN "deeptext"
    ELSE IF a.deeptabular # None /\ ~HasOutputDim(a.deeptabular) THEN "deeptabular"
    ELSE ""

\* lines 244-258: the component the first failing output_dim check names, or ""
MissingOutputDim(a) ==
    IF a.deeptabular # None /\ ~HasOutputDim(a.deeptabular) THEN "deeptabular"
    ELSE IF a.deeptext # None /\ ~HasOutputDim(a.deeptext) THEN "deeptext"
    ELSE IF a.deepimage # None /\ ~HasOutputDim(a.deepimage) THEN "deepimage"
    ELSE ""

\* the check of deephead against head_layers_dim left out
BothHeadsSkipped(a) == FALSE

\* lines 259-262: deephead and head_layers_dim are both given
BothHeadsFails(a) == a.deephead # None /\ a.head_layers_dim # None

\* the check for a head with nothing to fuse left out
NoDeepSkipped(a) == FALSE

\* lines 263-271: head_layers_dim is given and there is no deep component
NoDeepFails(a) ==
    a.head_layers_dim # None /\ a.deeptabular = None
        /\ a.deeptext = None /\ a.deepimage = None

\* lines 272-286: the input width of deephead differs from the deep output width
HeadWidthFails(a) ==
    a.deephead # None
        /\ DeepheadInpFeat(a.deephead)
            # DeepOutputDim(a.deeptabular, a.deeptext, a.deepimage)

\* the first check that fails, or None when the components are accepted
check_model_components(a) ==
    IF WideCheckFails(a)
        THEN BuildError("AssertionError", "wide")
    ELSE IF MissingOutputDim(a) # ""
        THEN BuildError("AttributeError", MissingOutputDim(a))
    ELSE IF BothHeadsFails(a)
        THEN BuildError("ValueError", "deephead and head_layers_dim")
    ELSE IF NoDeepFails(a)
        THEN BuildError("ValueError", "no deep component")
    ELSE IF HeadWidthFails(a)
        THEN BuildError("AssertionError", "deephead")
    ELSE None

\* the wrapping left out
WithoutLinear(branch, pred_dim, seed) == branch

\* a projection that keeps the width of the branch
WithSquareLinear(branch, pred_dim, seed) ==
    IF branch # None
    THEN Sequential(branch, Linear(branch.width, branch.width, seed))
    ELSE None

\* a projection with its two widths exchanged
WithSwappedLinear(branch, pred_dim, seed) ==
    IF branch # None
    THEN Sequential(branch, Linear(pred_dim, branch.width, seed))
    ELSE None

\* the no-head wrapping of one deep component
WithLinear(branch, pred_dim, seed) ==
    IF branch # None
    THEN Sequential(branch, Linear(branch.width, pred_dim, seed))
    ELSE None

\* the attributes of the object after __init__; seed is the state of the
\* random generator that initialises the layers built here
WideDeepInit(a, seed) ==
    LET checked == check_model_components(a)
        base == [built |-> TRUE, pred_dim |-> a.pred_dim, wide |-> a.wide,
                 deeptabular |-> a.deeptabular, deeptext |-> a.deeptext,
                 deepimage |-> a.deepimage, deephead |-> a.deephead]
    IN  IF checked # None THEN checked
        ELSE IF a.deephead # None THEN base
        ELSE IF a.head_layers_dim # None
        THEN LET deep_dim == DeepOutputDim(a.deeptabular, a.deeptext, a.deepimage)
                 head_layers_dim == <<deep_dim>> \o a.head_layers_dim.dims
             IN  [base EXCEPT !.deephead =
                    AddHeadOut(MLP(head_layers_dim, seed),
                               Linear(head_layers_dim[Len(head_layers_dim)],
                                      a.pred_dim, seed))]
        ELSE [base EXCEPT
                !.deeptabular = WithLinear(a.deeptabular, a.pred_dim, seed),
                !.deeptext = WithLinear(a.deeptext, a.pred_dim, seed),
                !.deepimage = WithLinear(a.deepimage, a.pred_dim, seed)]

(***************************************************************************)
(* WideDeep.forward                                                        *)
(***************************************************************************)

Slots == <<"wide", "deeptabular", "deeptext", "deepimage">>

\* list(X.keys())[0]; every slot of a batch has the same number of rows
FirstKey(x) ==
    Slots[CHOOSE i \in 1..Len(Slots) :
            /\ Slots[i] \in DOMAIN x
            /\ \A j \in 1..(i - 1) : Slots[j] \notin DOMAIN x]

\* the locals of a forward call
Frame ==
    [exc |-> "", reads |-> {}, out |-> EmptyTensor, deepside |-> EmptyTensor,
     deephead_out |-> EmptyTensor, deepside_linear |-> None]

\* component(X[slot])
CallOn(x, component, slot) ==
    IF slot \in DOMAIN x THEN ModuleForward(component, x[slot]) ELSE Fail("KeyError")

\* lines 197-201: out = self.wide(X["wide"]), or zeros
WideStep(m, x, f) ==
    IF m.wide # None
    THEN LET r == CallOn(x, m.wide, "wide")
         IN  [f EXCEPT !.reads = @ \cup {"wide"}, !.exc = r.exc, !.out = r.t]
    ELSE IF DOMAIN x = {}
    THEN [f EXCEPT !.exc = "IndexError"]
    ELSE [f EXCEPT !.reads = @ \cup {FirstKey(x)},
                   !.out = Zeros(Len(x[FirstKey(x)]), m.pred_dim)]

\* lines 206-213: deepside = cat([deepside, component(X[slot])], axis=1)
ConcatStep(m, x, slot, f) ==
    IF f.exc # "" \/ m[slot] = None THEN f
    ELSE LET r == Cat(Ok(f.deepside), CallOn(x, m[slot], slot))
         IN  [f EXCEPT !.reads = @ \cup {slot}, !.exc = r.exc, !.deepside = r.t]

\* lines 214-216: the head, then a Linear built by this call, then out.add_
HeadStep(m, rng, f) ==
    IF f.exc # "" THEN f
    ELSE LET deephead_out == HeadForward(m.deephead, Ok(f.deepside))
         IN  IF ~deephead_out.ok THEN [f EXCEPT !.exc = deephead_out.exc]
             ELSE LET deepside_linear == Linear(Cols(deephead_out.t), m.pred_dim, rng)
                      r == AddInPlace(Ok(f.out),
                                      LinearForward(deepside_linear, deephead_out))
                  IN  [f EXCEPT !.deephead_out = deephead_out.t,
                                !.deepside_linear = deepside_linear,
                                !.exc = r.exc, !.out = r.t]

\* lines 218-223: out.add_(component(X[slot]))
AddStep(m, x, slot, f) ==
    IF f.exc # "" \/ m[slot] = None THEN f
    ELSE LET r == AddInPlace(Ok(f.out), CallOn(x, m[slot], slot))
         IN  [f EXCEPT !.reads = @ \cup {slot}, !.exc = r.exc, !.out = r.t]

\* the frame at the end of forward(X); rng is the state of the random
\* generator when the call starts
WideDeepForward(m, x, rng) ==
    LET f1 == WideStep(m, x, Frame)
    IN  IF m.deephead # None
        THEN HeadStep(m, rng,
                ConcatStep(m, x, "deepimage",
                    ConcatStep(m, x, "deeptext",
                        ConcatStep(m, x, "deeptabular", f1))))
        ELSE AddStep(m, x, "deepimage",
                AddStep(m, x, "deeptext",
                    AddStep(m, x, "deeptabular", f1)))

(***************************************************************************)
(* Inputs of the model composer                                            *)
(***************************************************************************)

MaxDim == 2         \* widths of the branch components and pred_dim: 1..MaxDim
MaxHid == 1         \* widths of the head's layers: 1..MaxHid
MaxHeadLayers == 1  \* len(head_layers_dim): 0..MaxHeadLayers
MaxBatch == 2       \* batch sizes: 1..MaxBatch
MaxVal == 1         \* first input feature of a batch: 0..MaxVal
MaxSeed == 2        \* states of the random generator: 1..MaxSeed

\* the state of the random generator when __init__ builds its layers
InitSeed == 1

Wides == {None} \cup { [type |-> "Wide", slot |-> "wide", width |-> w] : w \in 1..MaxDim }

\* branches with an output_dim attribute, and one without
Deeps(slot) ==
    {None}
    \cup { [type |-> "Branch", slot |-> slot, width |-> d, has_output_dim |-> TRUE] :
            d \in 1..MaxDim }
    \cup { [type |-> "Branch", slot |-> slot, width |-> 1, has_output_dim |-> FALSE] }

\* user-supplied heads whose input width is at or next to `deep_dim`
Heads(deep_dim) ==
    {None} \cup { [type |-> "Head", linear |-> Linear(i, o, InitSeed)] :
                    i \in { deep_dim - 1, deep_dim, deep_dim + 1 } \cap Nat,
                    o \in 1..MaxHid }

HeadLayersDims ==
    {None} \cup { [type |-> "list", dims |-> d] :
                    d \in UNION { [1..n -> 1..MaxHid] : n \in 0..MaxHeadLayers } }

PresentSlots(m) == { Slots[i] : i \in { j \in 1..Len(Slots) : m[Slots[j]] # None } }

\* the batches that hold exactly the slots of the components of the model
Batches(m) ==
    { [s \in PresentSlots(m) |-> [i \in 1..b |-> v + i - 1]] :
        b \in 1..MaxBatch, v \in 0..MaxVal }

NotBuilt == [built |-> FALSE, exc |-> "", msg |-> ""]
NoForward == [outcome |-> "none"]

(***************************************************************************)
(* FocalLoss.forward.  Probabilities, weights and losses are fixed-point   *)
(* numbers in thousandths; alpha is in hundredths and gamma in hundredths. *)
(* A tensor is a record of its shape and its data: a 0-dim tensor holds a  *)
(* number, a 1-dim tensor a sequence, a 2-dim tensor a sequence of rows.   *)
(***************************************************************************)

\* the logits tried in the cells of input
Logits == {-1, 1}

\* torch.sigmoid, in thousandths, on the logits tried
Sigmoid(x) == CASE x = -1 -> 269 [] x = 1 -> 731

\* -log(p), in thousandths, on the probabilities the logits give
NegLog(p) == CASE p = 269 -> 1313 [] p = 731 -> 313

\* x.pow(g) for a whole exponent g
RECURSIVE Pow(_, _)
Pow(x, g) == IF g = 0 THEN 1000 ELSE (x * Pow(x, g - 1)) \div 1000

Tensor2(rows) == [shape |-> <<Len(rows), Len(rows[1])>>, data |-> rows]

\* torch.eye(n)
Eye(n) == [i \in 1..n |-> [j \in 1..n |-> IF i = j THEN 1 ELSE 0]]

\* target.squeeze() of a (batch, 1) target: every dimension of size 1 goes
Squeeze(target) ==
    IF Len(target) = 1
    THEN [shape |-> <<>>, data |-> target[1]]
    ELSE [shape |-> <<Len(target)>>, data |-> target]

\* eye[index]: a 0-dim index picks one row, a 1-dim index a row per entry
IndexRows(eye, index) ==
    IF index.shape = <<>>
    THEN [shape |-> <<Len(eye)>>, data |-> eye[index.data + 1]]
    ELSE [shape |-> <<Len(index.data), Len(eye)>>,
          data |-> [i \in 1..Len(index.data) |-> eye[index.data[i] + 1]]]

\* row i of t broadcast against a 2-dim tensor
BroadcastRow(t, i) == IF Len(t.shape) = 1 THEN t.data ELSE t.data[i]

\* FocalLoss._get_weight(p, t)
get_weight(alpha, gamma, p, t) ==
    Tensor2([i \in 1..p.shape[1] |-> [j \in 1..p.shape[2] |->
        LET pv == p.data[i][j]
            tv == BroadcastRow(t, i)[j]
            pt == pv * tv + (1000 - pv) * (1 - tv)
            w  == alpha * tv + (100 - alpha) * (1 - tv)
        IN  (w * Pow(1000 - pt, gamma \div 100)) \div 100 ]])

\* F.binary_cross_entropy(input, target, weight, reduction="mean"); a target
\* whose size differs from the size of input is rejected by the torch
\* releases that check sizes (same_size_required) and, with the same number
\* of elements, only warned about by the older ones
binary_cross_entropy(input, target, weight, same_size_required) ==
    IF target.shape # input.shape /\ same_size_required
    THEN Raised("ValueError")
    ELSE LET cell(i, j) ==
                LET tv == BroadcastRow(target, i)[j]
                    pv == input.data[i][j]
                IN  (weight.data[i][j] *
                        (tv * NegLog(pv) + (1 - tv) * NegLog(1000 - pv))) \div 1000
             rowsum(i) == SumSeq([j \in 1..input.shape[2] |-> cell(i, j)])
             total == SumSeq([i \in 1..input.shape[1] |-> rowsum(i)])
         IN  Returned(total \div (input.shape[1] * input.shape[2]))

\* FocalLoss(alpha, gamma).forward(input, target)
FocalLossForward(alpha, gamma, input, target, same_size_required) ==
    LET sig == [i \in 1..Len(input) |->
                    [j \in 1..Len(input[i]) |-> Sigmoid(input[i][j])]]
        binary == Len(input[1]) = 1
        input_prob ==
            IF binary
            THEN Tensor2([i \in 1..Len(input) |-> <<1000 - sig[i][1], sig[i][1]>>])
            ELSE Tensor2(sig)
        num_class == IF binary THEN 2 ELSE input_prob.shape[2]
        binary_target == IndexRows(Eye(num_class), Squeeze(target))
        weight == get_weight(alpha, gamma, input_prob, binary_target)
    IN  [alpha |-> alpha, gamma |-> gamma, input |-> input, target |-> target,
         input_prob |-> input_prob, num_class |-> num_class,
         binary_target |-> binary_target, weight |-> weight,
         result |-> binary_cross_entropy(input_prob, binary_target, weight,
                                         same_size_required)]

\* rows of a batch and columns of the logits
MaxFocalBatch == 2
MaxClasses == 2

NoFocalCall == [result |-> NoCall]

\* nothing has been called yet
Init ==
    /\ loss_fn = ""
    /\ kwargs = <<>>
    /\ loss_result = NoCall
    /\ args = None
    /\ model = NotBuilt
    /\ X = <<>>
    /\ fwd = NoForward
    /\ prev_fwd = NoForward
    /\ focal = NoFocalCall

\* WideDeep(wide, deeptabular, deeptext, deepimage, deephead, head_layers_dim, pred_dim)
Build ==
    /\ model = NotBuilt
    /\ \E wide \in Wides, deeptabular \in Deeps("deeptabular"),
          deeptext \in Deeps("deeptext"), deepimage \in Deeps("deepimage"),
          head_layers_dim \in HeadLayersDims, pred_dim \in 1..MaxDim :
        \E deephead \in Heads(DeepOutputDim(deeptabular, deeptext, deepimage)) :
            LET a == [wide |-> wide, deeptabular |-> deeptabular, deeptext |-> deeptext,
                      deepimage |-> deepimage, deephead |-> deephead,
                      head_layers_dim |-> head_layers_dim, pred_dim |-> pred_dim]
            IN  /\ args' = a
                /\ model' = WideDeepInit(a, InitSeed)
    /\ UNCHANGED <<X, fwd, prev_fwd>>
    /\ UNCHANGED loss_vars
    /\ UNCHANGED focal

ForwardResult(f) ==
    IF f.exc # ""
    THEN [outcome |-> "raised", exc |-> f.exc, reads |-> f.reads]
    ELSE [outcome |-> "returned", out |-> f.out, reads |-> f.reads,
          deepside |-> f.deepside, deephead_out |-> f.deephead_out,
          deepside_linear |-> f.deepside_linear]

\* model(X), called twice: the first call picks the batch, the second repeats it
Forward ==
    /\ model.built
    /\ prev_fwd = NoForward
    /\ \E x \in Batches(model), rng \in 1..MaxSeed :
        /\ fwd # NoForward => x = X
        /\ X' = x
        /\ prev_fwd' = fwd
        /\ fwd' = ForwardResult(WideDeepForward(model, x, rng))
    /\ UNCHANGED <<args, model>>
    /\ UNCHANGED loss_vars
    /\ UNCHANGED focal

ModelNext == Build \/ Forward

\* FocalLoss(alpha, gamma)(input, target) with labels below the class count
CallFocalLoss ==
    /\ focal = NoFocalCall
    /\ \E alpha \in KwargVals("alpha"), gamma \in KwargVals("gamma"),
          b \in 1..MaxFocalBatch, c \in 1..MaxClasses,
          same_size_required \in BOOLEAN :
        \E input \in [1..b -> [1..c -> Logits]],
           target \in [1..b -> 0..(IF c = 1 THEN 1 ELSE c - 1)] :
            focal' = FocalLossForward(alpha, gamma, input, target,
                                      same_size_required)
    /\ UNCHANGED loss_vars
    /\ UNCHANGED model_vars

FocalNext == CallFocalLoss

LossSpec == Init /\ [][LossNext]_vars
FocalSpec == Init /\ [][FocalNext]_vars
ModelSpec == Init /\ [][ModelNext]_vars

(***************************************************************************)
(* Properties of the loss registry                                         *)
(***************************************************************************)

LossCalled == loss_result # NoCall

LossReturned == LossCalled /\ loss_result.outcome = "returned"

\* the names that get_loss_function builds with kwargs["weight"]
WeightedNames ==
    {"binary", "logistic", "binary_logloss", "binary_cross_entropy",
     "multiclass", "multi_logloss", "cross_entropy", "categorical_cross_entropy"}

FocalNames == {"binary_focal_loss", "multiclass_focal_loss"}

\* C1 (as stated): a call with a vocabulary name and any subset of weight,
\* alpha, gamma returns a loss; a call with any other name raises the
\* unsupported-objective error (ValueError).
C1_Original ==
    LossCalled =>
        IF loss_fn \in ObjectiveKeys
        THEN loss_result.outcome = "returned" /\ loss_result.value.kind # "None"
        ELSE loss_result = Raised("ValueError")

\* the loss kind the claim C2 gives to each vocabulary name
ClaimedKind(name) ==
    CASE name \in {"binary", "logistic", "binary_logloss", "binary_cross_entropy"}
            -> "BCEWithLogitsLoss"
      [] name \in {"multiclass", "multi_logloss", "cross_entropy",
                   "categorical_cross_entropy"}
            -> "CrossEntropyLoss"
      [] name \in {"regression", "mse", "l2", "mean_squared_error"} -> "MSELoss"
      [] name \in {"mean_absolute_error", "mae", "l1"} -> "L1Loss"
      [] name \in {"mean_squared_log_error", "msle"} -> "MSLELoss"
      [] name \in {"root_mean_squared_error", "rmse"} -> "RMSELoss"
      [] name \in {"root_mean_squared_log_error", "rmsle"} -> "RMSLELoss"
      [] name \in {"binary_focal_loss", "multiclass_focal_loss"} -> "FocalLoss"

\* C2: every vocabulary name resolves to the loss kind of its alias set:
\* whenever a call with a vocabulary name returns, it returns a loss of that
\* kind (never None), and it does return when the keywords are the ones the
\* constructor of that kind is called with (weight for the two cross-entropy
\* families, no weight for the focal names, anything for the others).
C2_AliasKinds ==
    (LossCalled /\ loss_fn \in ObjectiveKeys) =>
        /\ loss_result.outcome = "returned"
            => loss_result.value.kind = ClaimedKind(loss_fn)
        /\ (/\ loss_fn \in WeightedNames => "weight" \in DOMAIN kwargs
            /\ loss_fn \in FocalNames => "weight" \notin DOMAIN kwargs)
            => loss_result.outcome = "returned"

C2_Witness ==
    /\ loss_fn = "multiclass_focal_loss"
    /\ LossReturned
    /\ loss_result.value.kind = "FocalLoss"
    /\ loss_result.value.alpha = DefaultAlpha

\* C3 (as stated): with a binary or multiclass alias, a call without weight
\* returns the unweighted loss of the family, and a call with a weight returns
\* the loss carrying exactly that weight.
C3_Original ==
    (LossCalled /\ loss_fn \in WeightedNames) =>
        /\ loss_result.outcome = "returned"
        /\ loss_result.value.kind = ClaimedKind(loss_fn)
        /\ loss_result.value.weight =
            IF "weight" \in DOMAIN kwargs THEN kwargs["weight"] ELSE NoWeight

(***************************************************************************)
(* Properties of the model composer                                        *)
(***************************************************************************)

Built == model.built

DeepSlots == <<"deeptabular", "deeptext", "deepimage">>

HasHead == Built /\ model.deephead # None

Forwarded == fwd # NoForward

ForwardReturned == Forwarded /\ fwd.outcome = "returned"

ForwardedTwice == prev_fwd # NoForward

\* C4 (as stated): two forward calls on the same batch give the same result.
C4_Original ==
    ForwardedTwice =>
        /\ fwd.outcome = prev_fwd.outcome
        /\ fwd.outcome = "returned" => fwd.out = prev_fwd.out

\* the activations of the present deep branches of row i, in the order
\* tabular, text, image
RECURSIVE ConcatRow(_, _)
ConcatRow(slots, i) ==
    IF slots = <<>> THEN <<>>
    ELSE (IF model[slots[1]] # None
          THEN BranchForward(args[slots[1]], X[slots[1]]).t[i]
          ELSE <<>>) \o ConcatRow(Tail(slots), i)

\* the number of linear projections to pred_dim after the head's own layers
ProjectionsAfterHead ==
    (IF model.deephead.type = "MLP" THEN 1 ELSE 0)
    + (IF fwd.deepside_linear # None THEN 1 ELSE 0)

\* C5 (as stated): with a head, forward feeds the head the concatenation
\* (tabular, text, image) and applies exactly one projection to pred_dim after
\* it: the embedded one on the head_layers_dim path, where forward adds none,
\* and one applied by forward on the deephead path.
C5_Original ==
    (HasHead /\ ForwardReturned) =>
        /\ fwd.deepside = [i \in 1..Rows(fwd.out) |-> ConcatRow(DeepSlots, i)]
        /\ ProjectionsAfterHead = 1
        /\ args.head_layers_dim # None => fwd.deepside_linear = None
        /\ args.deephead # None => fwd.deepside_linear # None

\* what the component held in `slot` gives on the batch: row i, column k
Term(slot, i, k) ==
    IF model[slot] # None THEN ModuleForward(model[slot], X[slot]).t[i][k] ELSE 0

BatchSize == Len(X[FirstKey(X)])

OnlyPresent(slots) == PresentSlots(model) = slots

\* C6: forward returns the wide contribution plus the deep contribution.
\* Without a head the output is, element by element, wide(X["wide"]) (zero
\* when there is no wide component) plus the projected output of every
\* present deep branch; so with only wide it is wide(X["wide"]), and with one
\* deep branch alone it is that branch's projected output, of shape
\* (batch_size, pred_dim).  With a head it is the wide contribution plus the
\* projected head output.
C6_ForwardSum ==
    ForwardReturned =>
        /\ ~HasHead =>
            /\ fwd.out = [i \in 1..BatchSize |-> [k \in 1..model.pred_dim |->
                            Term("wide", i, k) + Term("deeptabular", i, k)
                            + Term("deeptext", i, k) + Term("deepimage", i, k)]]
            /\ OnlyPresent({"wide"}) => fwd.out = BranchForward(model.wide, X["wide"]).t
            /\ \A s \in {"deeptabular", "deeptext", "deepimage"} :
                OnlyPresent({s}) => fwd.out = ModuleForward(model[s], X[s]).t
        /\ HasHead =>
            fwd.out = [i \in 1..BatchSize |-> [k \in 1..model.pred_dim |->
                        Term("wide", i, k)
                        + LinearForward(fwd.deepside_linear, Ok(fwd.deephead_out)).t[i][k]]]

\* a no-head model with wide and two deep branches has been run
C6_Witness ==
    /\ ForwardReturned
    /\ ~HasHead
    /\ OnlyPresent({"wide", "deeptabular", "deepimage"})
    /\ model.pred_dim = 2
    /\ BatchSize = 2
    /\ fwd.out[2][2] > Term("wide", 2, 2)

\* the terms forward adds into the prediction
TermShapeOk(t) == t.ok /\ Rows(t.t) = BatchSize /\ Cols(t.t) = model.pred_dim

\* C7: in every built model pred_dim is the pred_dim of the constructor call,
\* and in every forward call each term added into the prediction (the wide
\* output, each no-head branch's projected output, the projected head output)
\* and the prediction itself have shape (batch_size, pred_dim); no call fails
\* on a shape mismatch.
C7_Widths ==
    /\ Built => model.pred_dim = args.pred_dim
    /\ Forwarded => (fwd.outcome = "raised" => fwd.exc # "RuntimeError")
    /\ ForwardReturned =>
        /\ Rows(fwd.out) = BatchSize /\ Cols(fwd.out) = model.pred_dim
        /\ model.wide # None => TermShapeOk(CallOn(X, model.wide, "wide"))
        /\ ~HasHead =>
            \A s \in {"deeptabular", "deeptext", "deepimage"} :
                model[s] # None => TermShapeOk(CallOn(X, model[s], s))
        /\ HasHead =>
            TermShapeOk(LinearForward(fwd.deepside_linear, Ok(fwd.deephead_out)))

\* a head whose output is narrower than pred_dim has been projected and added
C7_Witness ==
    /\ ForwardReturned
    /\ HasHead
    /\ model.wide # None
    /\ model.pred_dim = 2
    /\ Cols(fwd.deephead_out) = 1
    /\ Cols(fwd.deepside) = 2

\* C8 (as stated): every forward call of a built model on a batch holding
\* exactly the slots of its components completes, and reads only those slots.
C8_Original ==
    Forwarded =>
        /\ fwd.outcome = "returned"
        /\ fwd.reads \subseteq PresentSlots(model)

\* C9 (as stated): after a successful build every deep branch the model holds
\* exposes output_dim, with and without a head.
C9_Original ==
    Built =>
        \A s \in {"deeptabular", "deeptext", "deepimage"} :
            model[s] # None => HasOutputDim(model[s])

\* C9 (amended): after a successful build the model exposes the pred_dim it
\* was built with.  With a head, every deep branch it holds is the branch that
\* was supplied and exposes output_dim.  Without a head, it holds each deep
\* branch wrapped as Sequential(branch, Linear(output_dim, pred_dim)): the
\* wrapper has no output_dim, the wrapped branch still exposes it.
C9_OutputDim ==
    Built =>
        /\ model.pred_dim = args.pred_dim
        /\ \A s \in {"deeptabular", "deeptext", "deepimage"} :
            /\ model[s] = None <=> args[s] = None
            /\ (model[s] # None /\ HasHead) =>
                model[s] = args[s] /\ HasOutputDim(model[s])
            /\ (model[s] # None /\ ~HasHead) =>
                /\ ~HasOutputDim(model[s])
                /\ model[s].type = "Sequential"
                /\ model[s].branch = args[s]
                /\ HasOutputDim(model[s].branch)
                /\ model[s].linear.in_features = model[s].branch.width
                /\ model[s].linear.out_features = model.pred_dim

\* a no-head model holding a wrapped branch next to an absent one
C9_Witness ==
    /\ Built
    /\ ~HasHead
    /\ model.deeptext # None
    /\ model.deeptext.type = "Sequential"
    /\ model.deeptext.branch.width = 2
    /\ model.deepimage = None

BuildAttempted == args # None

\* C10: a build with a wide component whose width differs from pred_dim fails
\* (AssertionError of the wide check) and leaves no model; with equal widths
\* the wide check does not fail the build.
C10_WideWidth ==
    (BuildAttempted /\ args.wide # None) =>
        IF args.wide.width # args.pred_dim
        THEN model = BuildError("AssertionError", "wide")
        ELSE model.built \/ model.msg # "wide"

\* a mismatching wide component next to otherwise acceptable components
C10_Witness ==
    /\ BuildAttempted
    /\ args.wide # None
    /\ args.wide.width = 2
    /\ args.pred_dim = 1
    /\ args.deeptabular # None
    /\ HasOutputDim(args.deeptabular)
    /\ args.deephead = None
    /\ ~model.built


OutputDimsPresent ==
    \A s \in {"deeptabular", "deeptext", "deepimage"} :
        args[s] # None => HasOutputDim(args[s])

\* the wide check and the output_dim checks, which run first, pass
EarlyChecksPass ==
    /\ args.wide # None => args.wide.width = args.pred_dim
    /\ OutputDimsPresent

\* C11: a build given both deephead and head_layers_dim fails, whatever the
\* other components are (with the "both" ValueError once the wide and
\* output_dim checks pass); so the head of a built model is absent (neither
\* given), or the MLP built from head_layers_dim (deephead not given), or the
\* supplied deephead itself (head_layers_dim not given).
C11_HeadExclusive ==
    BuildAttempted =>
        /\ (args.deephead # None /\ args.head_layers_dim # None) =>
            /\ ~model.built
            /\ EarlyChecksPass =>
                model = BuildError("ValueError", "deephead and head_layers_dim")
        /\ model.built =>
            \/ /\ model.deephead = None
               /\ args.deephead = None /\ args.head_layers_dim = None
            \/ /\ model.deephead # None /\ model.deephead.type = "MLP"
               /\ args.deephead = None /\ args.head_layers_dim # None
            \/ /\ model.deephead # None /\ model.deephead = args.deephead
               /\ args.head_layers_dim = None

\* both given, with a deephead that fits the deep components
C11_Witness ==
    /\ BuildAttempted
    /\ args.deephead # None
    /\ args.head_layers_dim # None
    /\ args.deeptabular # None
    /\ EarlyChecksPass
    /\ ~HeadWidthFails(args)
    /\ model = BuildError("ValueError", "deephead and head_layers_dim")


NoDeepSupplied ==
    args.deeptabular = None /\ args.deeptext = None /\ args.deepimage = None

\* the input width of the first layer of a head built from head_layers_dim
FirstLayerWidth(head) ==
    IF head.layers # <<>> THEN head.layers[1].in_features ELSE head.head_out.in_features

\* C12: a build given head_layers_dim and none of deeptabular, deeptext,
\* deepimage fails (with the "no deep component" ValueError once the earlier
\* checks pass); so every built model with a head built from head_layers_dim
\* holds at least one deep branch, and the first layer of that head takes the
\* positive sum of the output_dim of the branches held.
C12_DeclarativeHead ==
    BuildAttempted =>
        /\ (args.head_layers_dim # None /\ NoDeepSupplied) =>
            /\ ~model.built
            /\ (EarlyChecksPass /\ args.deephead = None) =>
                model = BuildError("ValueError", "no deep component")
        /\ (model.built /\ model.deephead # None /\ model.deephead.type = "MLP") =>
            /\ PresentSlots(model) \cap {"deeptabular", "deeptext", "deepimage"} # {}
            /\ FirstLayerWidth(model.deephead) > 0
            /\ FirstLayerWidth(model.deephead) =
                DeepOutputDim(model.deeptabular, model.deeptext, model.deepimage)

\* a head built over two branches, with a hidden layer
C12_Witness ==
    /\ Built
    /\ model.deephead # None
    /\ model.deephead.type = "MLP"
    /\ model.deephead.layers # <<>>
    /\ model.deeptabular = None
    /\ model.deeptext # None
    /\ model.deepimage # None
    /\ FirstLayerWidth(model.deephead) = 3


\* C13 (as stated): a build given a deephead succeeds only if the input width
\* of the deephead equals the sum of output_dim over the supplied deep
\* branches; every mismatch fails the build, and so does every deephead given
\* with no deep branch at all.
C13_Original ==
    (BuildAttempted /\ args.deephead # None) =>
        /\ model.built => ~HeadWidthFails(args)
        /\ HeadWidthFails(args) => ~model.built
        /\ NoDeepSupplied => ~model.built


\* the supplied deep components that have no output_dim, as positions of DeepSlots
Lacking == { i \in 1..Len(DeepSlots) :
                args[DeepSlots[i]] # None /\ ~HasOutputDim(args[DeepSlots[i]]) }

FirstLacking == DeepSlots[CHOOSE i \in Lacking : \A j \in Lacking : i <= j]

\* C14 (as stated): a build in which a supplied deep branch has no output_dim
\* fails with the error naming the first such branch in the order tabular,
\* text, image.
C14_Original ==
    (BuildAttempted /\ Lacking # {}) =>
        model = BuildError("AttributeError", FirstLacking)

\* C14 (amended): a build in which a supplied deep branch has no output_dim
\* always fails.  The wide width check runs first: when it fails, the error
\* is its AssertionError; otherwise the error is the AttributeError naming
\* the first such branch in the order tabular, text, image, whatever deephead
\* and head_layers_dim are (the head checks run later).
C14_OutputDimCheck ==
    (BuildAttempted /\ Lacking # {}) =>
        /\ ~model.built
        /\ model =
            IF args.wide # None /\ args.wide.width # args.pred_dim
            THEN BuildError("AssertionError", "wide")
            ELSE BuildError("AttributeError", FirstLacking)

\* text and image both lack output_dim, and both head arguments are given
C14_Witness ==
    /\ BuildAttempted
    /\ Lacking = {2, 3}
    /\ args.deeptabular # None
    /\ args.wide # None
    /\ args.deephead # None
    /\ args.head_layers_dim # None
    /\ model = BuildError("AttributeError", "deeptext")


Wrapped(s) == model[s] # None /\ model[s].type = "Sequential"

\* C15: a built model is in one of two modes.  Built with neither deephead
\* nor head_layers_dim, it has no head and holds every supplied deep branch
\* wrapped with a linear projection from the branch's output_dim to pred_dim.
\* With a head, it holds every supplied deep branch unwrapped, and forward
\* feeds the head the raw activations, as wide as the sum of the output_dim.
\* No built model has a head and a wrapped branch.
C15_TwoModes ==
    Built =>
        /\ (args.deephead = None /\ args.head_layers_dim = None) =>
            /\ model.deephead = None
            /\ \A s \in {"deeptabular", "deeptext", "deepimage"} :
                args[s] # None =>
                    /\ Wrapped(s)
                    /\ model[s].branch = args[s]
                    /\ model[s].linear.in_features = args[s].width
                    /\ model[s].linear.out_features = args.pred_dim
        /\ model.deephead # None =>
            /\ \A s \in {"deeptabular", "deeptext", "deepimage"} :
                ~Wrapped(s) /\ model[s] = args[s]
            /\ ForwardReturned =>
                Cols(fwd.deepside) =
                    DeepOutputDim(args.deeptabular, args.deeptext, args.deepimage)
        /\ ~(model.deephead # None
             /\ \E s \in {"deeptabular", "deeptext", "deepimage"} : Wrapped(s))

\* a no-head model whose two branches are wrapped to a wider pred_dim
C15_Witness ==
    /\ Built
    /\ model.deephead = None
    /\ model.pred_dim = 2
    /\ Wrapped("deeptabular")
    /\ model.deeptabular.linear.in_features = 1
    /\ Wrapped("deepimage")
    /\ model.deeptext = None
    /\ ForwardReturned


(***************************************************************************)
(* Properties of the objective tables                                      *)
(***************************************************************************)

\* the task families that list the name
FamiliesOf(name) ==
    { f \in 1..Len(Methods) : InList(name, method_to_objec[Methods[f]]) }

\* the alias sets that list the name
AliasSetsOf(name) == { k \in DOMAIN loss_aliases : InList(name, loss_aliases[k]) }

AliasNames ==
    UNION { { loss_aliases[k][i] : i \in 1..Len(loss_aliases[k]) } :
            k \in DOMAIN loss_aliases }

\* the loss kind each dispatch test of get_loss_function returns
KindOfAliasSet(k) ==
    CASE k = "binary" -> "BCEWithLogitsLoss"
      [] k = "multiclass" -> "CrossEntropyLoss"
      [] k = "regression" -> "MSELoss"
      [] k = "mean_absolute_error" -> "L1Loss"
      [] k = "mean_squared_log_error" -> "MSLELoss"
      [] k = "root_mean_squared_error" -> "RMSELoss"
      [] k = "root_mean_squared_log_error" -> "RMSLELoss"

\* C17: the objective tables are consistent.  Every vocabulary name is listed
\* by exactly one task family, which is its entry in objective_to_method; the
\* seven alias sets are pairwise disjoint; every vocabulary name is in exactly
\* one alias set, or in none and then contains "focal_loss"; no alias-set name
\* is outside the vocabulary.  So in every call that returns, each dispatch
\* test the name passes gives the loss that was returned, whatever the order
\* of the tests, and the focal fallback is taken by no alias-set name.
C17_TablesConsistent ==
    /\ DOMAIN loss_aliases =
        {"binary", "multiclass", "regression", "mean_absolute_error",
         "mean_squared_log_error", "root_mean_squared_error",
         "root_mean_squared_log_error"}
    /\ \A name \in ObjectiveKeys :
        /\ Cardinality(FamiliesOf(name)) = 1
        /\ \A f \in FamiliesOf(name) : objective_to_method[name] = Methods[f]
        /\ \/ Cardinality(AliasSetsOf(name)) = 1
           \/ AliasSetsOf(name) = {} /\ StrContains(name, "focal_loss")
    /\ \A k1, k2 \in DOMAIN loss_aliases :
        k1 # k2 => \A i \in 1..Len(loss_aliases[k1]) :
                        ~InList(loss_aliases[k1][i], loss_aliases[k2])
    /\ AliasNames \subseteq ObjectiveKeys
    /\ \A name \in AliasNames : ~StrContains(name, "focal_loss")
    /\ LossReturned =>
        /\ \A k \in AliasSetsOf(loss_fn) : loss_result.value.kind = KindOfAliasSet(k)
        /\ loss_result.value.kind = "FocalLoss" => AliasSetsOf(loss_fn) = {}

\* a focal name, in no alias set, resolved by the fallback test
C17_Witness ==
    /\ loss_fn = "binary_focal_loss"
    /\ AliasSetsOf(loss_fn) = {}
    /\ objective_to_method[loss_fn] = "binary"
    /\ LossReturned
    /\ loss_result.value.kind = "FocalLoss"
    /\ "alpha" \in DOMAIN kwargs


(***************************************************************************)
(* Properties of FocalLoss.forward                                         *)
(***************************************************************************)

FocalCalled == focal # NoFocalCall

\* C16 (as stated; fails): in every call of FocalLoss.forward, for every batch
\* size >= 1 and class count C (2 when the logits have one column), the
\* one-hot target has shape (batch, C), its row i has its single 1 at column
\* target[i], its shape is the shape of the probability matrix, and with one
\* column of logits column 1 holds sigmoid(logit) and column 0 its complement.
C16_Original ==
    FocalCalled =>
        LET batch == Len(focal.input)
            C == IF Len(focal.input[1]) = 1 THEN 2 ELSE Len(focal.input[1])
        IN  /\ focal.num_class = C
            /\ focal.binary_target.shape = <<batch, C>>
            /\ focal.binary_target.shape = focal.input_prob.shape
            /\ \A i \in 1..batch : \A j \in 1..C :
                focal.binary_target.data[i][j] =
                    IF j = focal.target[i] + 1 THEN 1 ELSE 0
            /\ Len(focal.input[1]) = 1 =>
                \A i \in 1..batch :
                    /\ focal.input_prob.data[i][2] = Sigmoid(focal.input[i][1])
                    /\ focal.input_prob.data[i][1] = 1000 - Sigmoid(focal.input[i][1])

====
